---------------------------- MODULE Spec2Model ----------------------------
(***************************************************************************)
(* A model of aten/src/ATen/native/cuda/CUDALoops.cuh: the host-side       *)
(* launch functions legacy::launch_kernel and modern::launch_kernel, the   *)
(* device kernels legacy::elementwise_kernel and modern::elementwise_kernel*)
(* (with elementwise_kernel_helper), and the vectorization width selector  *)
(* modern::detail::can_vectorize_up_to.                                    *)
(*                                                                         *)
(* The machine is scaled down: `int` is IntBits wide instead of 32.  The   *)
(* template parameters nt, vt of the legacy launch are part of the state:  *)
(* any block size up to MaxNt, and a per-thread work size that is a power  *)
(* of two or the odd number after it.  The modern kernel is instantiated   *)
(* with the powers of two 2^LogNumThreads and 2^LogThreadWorkSize.         *)
(***************************************************************************)
EXTENDS Integers, Sequences, FiniteSets, TLC

---------------------------------------------------------------------------
(* Bounds of the model.                                                    *)

\* width of the device `int` (the source: 32)
IntBits == 5
\* legacy::launch_kernel<nt, vt>: nt is any of 1 .. MaxNt, vt is 2^LogVt
\* or 2^LogVt + 1
MaxNt == 6
LogVt == 1
\* modern::launch_kernel<nt, vt>: num_threads = 2^LogNumThreads,
\* thread_work_size = 2^LogThreadWorkSize
LogNumThreads == 1
LogThreadWorkSize == 2
\* largest arity of the user function f
MaxArity == 2
\* largest storage offset (in elements) of an operand of a launch
MaxOffset == 2
\* largest element index of a base pointer given to the width selector
MaxAddr == 4
\* largest value an unconstrained per-pointer width query may return
MaxWidth == 5

---------------------------------------------------------------------------
(* Machine integers.                                                       *)

TwoToBits == 2 ^ IntBits
IntMax == 2 ^ (IntBits - 1) - 1
IntMin == -(2 ^ (IntBits - 1))

\* conversion to `unsigned int` (arithmetic modulo 2^IntBits)
ToUnsigned(x) == x % TwoToBits

\* conversion of a value to `int` (two's complement)
ToInt(x) ==
  LET m == x % TwoToBits
  IN  IF m > IntMax THEN m - TwoToBits ELSE m

\* the content of an int after a signed overflow.  The overflow is
\* undefined behaviour and the build is free in what follows from it: the
\* value is kept symbolic (it is no value of int and no sum of two ints)
Overflowed == 4 * TwoToBits

\* `a + b` on two ints
IntAdd(a, b) ==
  IF a = Overflowed \/ a + b > IntMax \/ a + b < IntMin THEN Overflowed
  ELSE a + b

Min(a, b) == IF a <= b THEN a ELSE b

---------------------------------------------------------------------------
(* Template parameters.                                                    *)

\* template<int nt, int vt, typename func_t> of the legacy launch and
\* kernel: the instantiations
LegacyNt == 1 .. MaxNt
LegacyVt == {2 ^ LogVt, 2 ^ LogVt + 1}

num_threads == 2 ^ LogNumThreads
thread_work_size == 2 ^ LogThreadWorkSize
\* memory::policies<num_threads, thread_work_size>::common::block_work_size
block_work_size == num_threads * thread_work_size

\* sizeof(return_t), sizeof(arg_t) of the functions given to the selector
ElemSizes == {1, 2}

\* arities of the functions launched
LaunchArities == {0, 1, 2}

\* the int64_t element counts the callers pass
NValues == (-1) .. (IntMax + 1)

---------------------------------------------------------------------------
VARIABLES
  mode,        \* which entry point is called: "legacy", "modern", "selector"
  nt,          \* template parameter nt of launch_kernel<nt, vt>
  vt,          \* template parameter vt of launch_kernel<nt, vt>
  N,           \* the int64_t N argument of launch_kernel
  arity,       \* function_traits<func_t>::arity
  ret_size,    \* sizeof(return_t)
  arg_size,    \* sizeof(arg_t)
  data,        \* array_t data: data[0] output pointer, data[1..arity] inputs
  pc,          \* host: "ready", "returned", "assert_failed", "cuda_error"
  hostlog,     \* host: the runtime calls made, in program order
  vec_size,    \* host: result of detail::can_vectorize_up_to (0: not queried)
  kernels,     \* device: the kernels issued with <<<grid, block>>>
  last_error,  \* device runtime: the sticky last-error state
  threads,     \* device: state of each thread <<blockIdx.x, threadIdx.x>>
  loads,       \* device memory: [tensor, pos] read from the input tensors
  stores,      \* device memory: [pos, val, by, slot] written to the output
  calls,       \* invocations of f by the modern kernel: [by, slot, pos, args]
  fcalls       \* invocations f(idx) by the legacy kernel: [idx, by, step]

vars == <<mode, nt, vt, N, arity, ret_size, arg_size, data, pc, hostlog,
          vec_size, kernels, last_error, threads, loads, stores, calls, fcalls>>

inputs == <<mode, nt, vt, N, arity, ret_size, arg_size, data>>
device == <<threads, loads, stores, calls, fcalls>>

---------------------------------------------------------------------------
(* The vectorization width selector.                                       *)

\* memory::can_vectorize_up_to<scalar_t>(pointer) of MemoryAccess.cuh: the
\* feasible width of one pointer, 4 if the address is aligned to a vector
\* of 4 elements, else 2 if aligned to a vector of 2, else 1.
memory_can_vectorize_up_to(size, pointer) ==
  IF pointer % (4 * size) = 0 THEN 4
  ELSE IF pointer % (2 * size) = 0 THEN 2
  ELSE 1

\* the loop of detail::can_vectorize_up_to over the input pointers
\* pointers[i + 1], i = from .. n - 1, each judged with arg_t
RECURSIVE can_vectorize_loop(_, _, _, _, _)
can_vectorize_loop(result, i, n, asize, pointers) ==
  IF i >= n THEN result
  ELSE can_vectorize_loop(
         Min(result, memory_can_vectorize_up_to(asize, pointers[i + 1])),
         i + 1, n, asize, pointers)

\* a selector whose loop stops one input pointer early
can_vectorize_up_to_short(n, rsize, asize, pointers) ==
  can_vectorize_loop(memory_can_vectorize_up_to(rsize, pointers[0]),
                     0, n - 1, asize, pointers)

\* modern::detail::can_vectorize_up_to<func_t>(pointers): n is
\* traits::arity, rsize is sizeof(return_t), asize is sizeof(arg_t)
can_vectorize_up_to(n, rsize, asize, pointers) ==
  can_vectorize_loop(memory_can_vectorize_up_to(rsize, pointers[0]),
                     0, n, asize, pointers)

---------------------------------------------------------------------------
(* Host side: the launch functions.                                        *)

\* an assertion that forgets the upper limit
InRange_nolimit(n) == n >= 0

\* TORCH_INTERNAL_ASSERT(N >= 0 && N <= std::numeric_limits<int32_t>::max())
InRange(n) == n >= 0 /\ n <= IntMax

\* an early return that never triggers
IsEmpty_never(n) == FALSE

\* if (N == 0) return;
IsEmpty(n) == n = 0

\* a grid size that rounds down
GridSize_floor(n, block_x, work) ==
  ToUnsigned(n \div ToUnsigned(block_x * work))

\* dim3 grid((N + block.x * vt - 1) / (block.x * vt)): block.x is unsigned,
\* N is int64_t, the quotient is converted to unsigned
GridSize(n, block_x, work) ==
  ToUnsigned((n + ToUnsigned(block_x * work) - 1)
             \div ToUnsigned(block_x * work))

\* a switch whose case 2 launches the 4-wide kernel
Dispatch_wide(v) ==
  CASE v = 4 -> 4
    [] v = 2 -> 4
    [] v = 1 -> 1
    [] OTHER -> 0

\* switch (vec_size): the vec_size template argument of the kernel that is
\* launched, 0 for the default branch
Dispatch(v) ==
  CASE v = 4 -> 4
    [] v = 2 -> 2
    [] v = 1 -> 1
    [] OTHER -> 0

\* a check that swallows the error
CudaCheck_swallow(err) == "returned"

\* AT_CUDA_CHECK(err): throws unless err is cudaSuccess
CudaCheck(err) == IF err = "cudaSuccess" THEN "returned" ELSE "cuda_error"

\* return_t results[thread_work_size] of a thread that is not computing
NoResults == [s \in 0 .. (thread_work_size - 1) |-> <<"none", <<>>>>]

\* the threads of a launched grid
GridThreads(grid, block_x) ==
  [th \in (0 .. grid - 1) \X (0 .. block_x - 1) |->
     [pc |-> "ready", policy |-> "none", remaining |-> 0,
      results |-> NoResults]]

\* kernel<<<grid, block, 0, stream>>>(N, ...) followed by
\* AT_CUDA_CHECK(cudaGetLastError()); `ok` is whether the device accepts the
\* launch
Enqueue(ns, v, grid, block_x, ok, log) ==
  LET err == IF ok THEN "cudaSuccess" ELSE "cudaErrorLaunchFailure"
      res == CudaCheck(err)
  IN  /\ kernels' = Append(kernels,
           [ns |-> ns, vec_size |-> v, grid |-> grid, block |-> block_x,
            N |-> ToInt(N), ok |-> ok])
      /\ threads' = IF ok THEN GridThreads(grid, block_x) ELSE <<>>
      \* cudaGetLastError returns the error and resets it to cudaSuccess
      /\ last_error' = "cudaSuccess"
      /\ hostlog' = log \o <<"enqueue", "cudaGetLastError",
                             IF res = "returned" THEN "return" ELSE "throw">>
      /\ pc' = res

\* the host raises TORCH_INTERNAL_ASSERT or returns without a launch
NoLaunch(res, log) ==
  /\ pc' = res
  /\ hostlog' = log
  /\ UNCHANGED <<kernels, last_error, threads>>

\* legacy::launch_kernel<nt, vt>(N, f)
legacy_launch_kernel ==
  /\ pc = "ready"
  /\ mode = "legacy"
  /\ IF ~InRange(N) THEN NoLaunch("assert_failed", <<"assert">>)
     ELSE IF IsEmpty(N) THEN NoLaunch("returned", <<"return">>)
     ELSE \E ok \in BOOLEAN :
            Enqueue("legacy", 0, GridSize(N, nt, vt), nt, ok,
                    <<"grid", "getCurrentCUDAStream">>)
  /\ UNCHANGED <<inputs, vec_size, loads, stores, calls, fcalls>>

\* modern::launch_kernel<nt, vt>(N, f, data), with `sel` the value
\* detail::can_vectorize_up_to<func_t>(data) returns
modern_launch(sel) ==
  /\ pc = "ready"
  /\ mode = "modern"
  /\ IF ~InRange(N) THEN
       /\ NoLaunch("assert_failed", <<"assert">>)
       /\ UNCHANGED vec_size
     ELSE IF IsEmpty(N) THEN
       /\ NoLaunch("returned", <<"return">>)
       /\ UNCHANGED vec_size
     ELSE
       /\ vec_size' = sel
       /\ IF Dispatch(sel) = 0 THEN
            NoLaunch("assert_failed",
                     <<"grid", "getCurrentCUDAStream", "can_vectorize_up_to",
                       "assert">>)
          ELSE \E ok \in BOOLEAN :
            Enqueue("modern", Dispatch(sel),
                    GridSize(N, num_threads, thread_work_size), num_threads,
                    ok,
                    <<"grid", "getCurrentCUDAStream", "can_vectorize_up_to">>)
  /\ UNCHANGED <<inputs, loads, stores, calls, fcalls>>

\* modern::launch_kernel with the selector of this file
modern_launch_kernel ==
  modern_launch(can_vectorize_up_to(arity, ret_size, arg_size, data))

---------------------------------------------------------------------------
(* Device side: legacy::elementwise_kernel.                                *)

\* int nv = nt * vt; int idx = nv * blockIdx.x + tid;  (the product and
\* the sum are unsigned, the result is converted to int)
legacy_first_idx(b, t) == ToInt(ToUnsigned(ToInt(nt * vt) * b + t))

\* what the build may pass to f where the source passes v: once idx has
\* overflowed, any value of the register (wrapped, kept wide, or what the
\* optimizer made of the loop), else v itself
OverflowValues == IntMin .. (IntMax + nt * vt)
MayBe(v) == IF v = Overflowed THEN OverflowValues ELSE {v}

\* for (int i = 0; i < vt; i++) { if (idx < N) { f(idx); idx += nt; } }
\* from step i on: the invocations [idx, step] of f.  A step that follows
\* an overflow of idx += nt is recorded with idx = Overflowed: there the
\* build may take idx < N either way, and invoke f with any value of
\* OverflowValues or not at all.
RECURSIVE legacy_loop(_, _, _)
legacy_loop(n, i, idx) ==
  IF i >= vt THEN {}
  ELSE IF idx = Overflowed \/ idx < n
       THEN {[idx |-> idx, step |-> i]}
              \cup legacy_loop(n, i + 1, IntAdd(idx, nt))
       ELSE legacy_loop(n, i + 1, idx)

\* the kernel issued by the launch
Kernel == kernels[1]

\* one thread of legacy::elementwise_kernel<nt, vt, func_t>(N, f)
legacy_elementwise_kernel(th) ==
  /\ Kernel.ns = "legacy"
  /\ threads[th].pc = "ready"
  /\ fcalls' = fcalls \cup
       {[idx |-> c.idx, by |-> th, step |-> c.step] :
          c \in legacy_loop(Kernel.N, 0, legacy_first_idx(th[1], th[2]))}
  /\ threads' = [threads EXCEPT ![th].pc = "done"]
  /\ UNCHANGED <<inputs, pc, hostlog, vec_size, kernels, last_error,
                 loads, stores, calls>>

---------------------------------------------------------------------------
(* Device side: modern::elementwise_kernel and elementwise_kernel_helper.  *)

\* a slot that the policy does not touch
NoPos == -1

\* the value input tensor i holds at position p
In(i, p) == <<i, p>>

\* the content of a register of args[thread_work_size][nargs] that no load
\* has written.  It is kept symbolic: every such register, of every slot
\* and every argument, stands on its own for any one value of Indeterminate
\* (two of them need not hold the same value).
Uninitialized == <<-1, -1>>

\* a bit pattern that is the value of no input tensor at any position
Garbage == <<0, -1>>

\* what an uninitialized register may hold: whatever was left there, be it
\* a value of some input tensor (loaded earlier by this or another thread)
\* or any other bit pattern
Indeterminate ==
  {In(i, p) : i \in 1 .. arity, p \in 0 .. (N - 1)} \cup {Garbage}

\* the values a register holding v may have
MayHold(v) == IF v = Uninitialized THEN Indeterminate ELSE {v}

\* the value f returns for the arguments args
F(args) == <<"f", args>>

Slots == 0 .. (thread_work_size - 1)

\* memory::policies::checked_unroll(remaining), load and store: slot s of
\* thread t is element t + s * num_threads of the block, skipped when that
\* is not below remaining
checked_unroll_index(remaining, t, s) ==
  IF t + s * num_threads < remaining THEN t + s * num_threads ELSE NoPos

\* memory::policies::vectorized<v>, load and store: the i-th vector of
\* thread t is vector t + i * num_threads of the block, and its j-th
\* element is slot v * i + j; thread_work_size / v vectors per thread
vectorized_index(v, t, s) ==
  IF s < v * (thread_work_size \div v)
  THEN v * (t + (s \div v) * num_threads) + (s % v)
  ELSE NoPos

\* int remaining = N - policies::common::block_work_size * blockIdx.x;
Remaining(n, b) == ToInt(ToUnsigned(n - block_work_size * b))

\* a test that sends a full last block to the checked policy
UseChecked_le(remaining) == remaining <= block_work_size

\* if (remaining < policies::common::block_work_size)
UseChecked(remaining) == remaining < block_work_size

\* a block base that strides by the block size
BlockBase_threads(b) == ToInt(ToUnsigned(num_threads * b))

\* int idx = policy_t::block_work_size * blockIdx.x;
BlockBase(b) == ToInt(ToUnsigned(block_work_size * b))

\* the element of the block that slot s of thread t accesses under the
\* policy the block runs
PolicyIndex(policy, v, remaining, t, s) ==
  IF policy = "checked_unroll" THEN checked_unroll_index(remaining, t, s)
  ELSE vectorized_index(v, t, s)

\* the tensor position of slot s of thread th
SlotPos(th, policy, remaining, s) ==
  LET i == PolicyIndex(policy, Kernel.vec_size, remaining, th[2], s)
  IN  IF i = NoPos THEN NoPos ELSE BlockBase(th[1]) + i

\* the tensor position of every slot of thread th
SlotPositions(th, policy, remaining) ==
  [s \in Slots |-> SlotPos(th, policy, remaining, s)]

\* one thread of modern::elementwise_kernel, up to the compute loop of
\* elementwise_kernel_helper: choose the policy, load, compute.  A slot the
\* policy did not load is left uninitialized, and the compute loop invokes
\* f on it all the same.
modern_elementwise_kernel_compute(th) ==
  /\ Kernel.ns = "modern"
  /\ threads[th].pc = "ready"
  /\ LET remaining == Remaining(Kernel.N, th[1])
         policy == IF UseChecked(remaining) THEN "checked_unroll"
                   ELSE "vectorized"
         pos == SlotPositions(th, policy, remaining)
         loaded == {s \in Slots : pos[s] # NoPos}
         args == [s \in Slots |->
                    [i \in 1 .. arity |->
                       IF s \in loaded THEN In(i, pos[s]) ELSE Uninitialized]]
     IN  /\ loads' = loads \cup
               {[tensor |-> i, pos |-> pos[s]] : i \in 1 .. arity, s \in loaded}
         \* results[i] = invoke_with_array(f, args[i]) for every i
         /\ calls' = calls \cup
               {[by |-> th, slot |-> s, pos |-> pos[s], args |-> args[s]] :
                  s \in Slots}
         /\ threads' = [threads EXCEPT ![th] =
               [pc |-> "computed", policy |-> policy, remaining |-> remaining,
                results |-> [s \in Slots |-> F(args[s])]]]
  /\ UNCHANGED <<inputs, pc, hostlog, vec_size, kernels, last_error,
                 stores, fcalls>>

\* the same thread, policy.store(result_accessor, result_base)
modern_elementwise_kernel_store(th) ==
  /\ Kernel.ns = "modern"
  /\ threads[th].pc = "computed"
  /\ LET pos == SlotPositions(th, threads[th].policy, threads[th].remaining)
     IN  stores' = stores \cup
           {[pos |-> pos[s], val |-> threads[th].results[s], by |-> th,
             slot |-> s] : s \in {x \in Slots : pos[x] # NoPos}}
  \* the thread exits, its registers are gone
  /\ threads' = [threads EXCEPT ![th].pc = "done",
                                ![th].results = NoResults]
  /\ UNCHANGED <<inputs, pc, hostlog, vec_size, kernels, last_error,
                 loads, calls, fcalls>>

---------------------------------------------------------------------------
(* Specifications.                                                         *)

\* the state of host and device before the call
Idle ==
  /\ pc = "ready"
  /\ hostlog = <<>>
  /\ vec_size = 0
  /\ kernels = <<>>
  /\ last_error = "cudaSuccess"
  /\ threads = <<>>
  /\ loads = {}
  /\ stores = {}
  /\ calls = {}
  /\ fcalls = {}

\* pointer arrays of a launch: the inputs are whole allocations (aligned
\* to any vector), the output is a view with a storage offset of k elements
LaunchPointers(n, rsize, asize) ==
  {[i \in 0 .. n |-> IF i = 0 THEN k * rsize ELSE 0] : k \in 0 .. MaxOffset}

\* pointer arrays given to the selector: every operand element-aligned
SelectorPointers(n, rsize, asize) ==
  {[i \in 0 .. n |-> k[i] * (IF i = 0 THEN rsize ELSE asize)] :
     k \in [0 .. n -> 0 .. MaxAddr]}

\* a call of legacy::launch_kernel (it takes no pointer array)
InitLegacy ==
  /\ mode = "legacy"
  /\ nt \in LegacyNt
  /\ vt \in LegacyVt
  /\ N \in NValues
  /\ arity = 0
  /\ ret_size = 1
  /\ arg_size = 1
  /\ data = [i \in 0 .. 0 |-> 0]
  /\ Idle

\* a call of modern::launch_kernel, for a function over one-byte elements
\* (the element sizes only enter the selector)
InitModern ==
  /\ mode = "modern"
  /\ nt = num_threads
  /\ vt = thread_work_size
  /\ N \in NValues
  /\ arity \in LaunchArities
  /\ ret_size = 1
  /\ arg_size = 1
  /\ data \in LaunchPointers(arity, ret_size, arg_size)
  /\ Idle

Init == InitLegacy \/ InitModern

Next ==
  \/ legacy_launch_kernel
  \/ modern_launch_kernel
  \/ \E th \in DOMAIN threads : legacy_elementwise_kernel(th)
  \/ \E th \in DOMAIN threads : modern_elementwise_kernel_compute(th)
  \/ \E th \in DOMAIN threads : modern_elementwise_kernel_store(th)

Spec == Init /\ [][Next]_vars

\* a call of detail::can_vectorize_up_to alone
InitSelector ==
  /\ mode = "selector"
  /\ nt = num_threads
  /\ vt = thread_work_size
  /\ N = 0
  /\ arity \in 0 .. MaxArity
  /\ ret_size \in ElemSizes
  /\ arg_size \in ElemSizes
  /\ data \in SelectorPointers(arity, ret_size, arg_size)
  /\ Idle

\* int vec_size = detail::can_vectorize_up_to<func_t>(data);
can_vectorize_up_to_call ==
  /\ mode = "selector"
  /\ pc = "ready"
  /\ vec_size' = can_vectorize_up_to(arity, ret_size, arg_size, data)
  /\ hostlog' = <<"can_vectorize_up_to">>
  /\ pc' = "returned"
  /\ UNCHANGED <<inputs, kernels, last_error, device>>

SpecSelector == InitSelector /\ [][can_vectorize_up_to_call]_vars

\* a call of modern::launch_kernel in which the width query is left
\* unconstrained: the switch of launch_kernel sees any value 0 .. MaxWidth
InitDispatch ==
  /\ mode = "modern"
  /\ nt = num_threads
  /\ vt = thread_work_size
  /\ N \in NValues
  /\ arity \in LaunchArities
  /\ ret_size = 1
  /\ arg_size = 1
  /\ data = [i \in 0 .. arity |-> 0]
  /\ Idle

modern_launch_kernel_any == \E w \in 0 .. MaxWidth : modern_launch(w)

NextDispatch ==
  \/ modern_launch_kernel_any
  \/ \E th \in DOMAIN threads : modern_elementwise_kernel_compute(th)
  \/ \E th \in DOMAIN threads : modern_elementwise_kernel_store(th)

SpecDispatch == InitDispatch /\ [][NextDispatch]_vars

---------------------------------------------------------------------------
(* Properties.                                                             *)

\* the launch function has been called and has ended
Called == pc # "ready"

\* a kernel was issued and the device accepted it
Launched == kernels # <<>> /\ kernels[1].ok

\* every thread of the grid has finished
AllDone == Launched /\ \A th \in DOMAIN threads : threads[th].pc = "done"

\* g is ceil(n / work)
IsCeil(g, n, work) == g * work >= n /\ (g - 1) * work < n

\* the template parameters of the launch function called
BlockOf(m) == IF m = "legacy" THEN nt ELSE num_threads
WorkOf(m) == IF m = "legacy" THEN nt * vt ELSE block_work_size

\* the first place of event e in the host log, 0 if absent
RECURSIVE IndexFrom(_, _, _)
IndexFrom(log, e, i) ==
  IF i > Len(log) THEN 0
  ELSE IF log[i] = e THEN i ELSE IndexFrom(log, e, i + 1)
IndexOf(log, e) == IndexFrom(log, e, 1)

\* the value the output must hold at position j
Expected(j) == F([i \in 1 .. arity |-> In(i, j)])

\* C1: in the modern launch, under every interleaving of the threads, no
\* position outside [0, N) is ever read or written, every store writes
\* f(in_1[j], ..., in_k[j]) to its position j, no position is stored twice,
\* and once all threads have finished every position of [0, N) was stored.
C1_ModernWritesEachOnce ==
  mode = "modern" =>
    /\ \A l \in loads : l.pos >= 0 /\ l.pos < N
    /\ \A w \in stores :
         /\ w.pos >= 0 /\ w.pos < N
         /\ w.val = Expected(w.pos)
         /\ \A x \in stores : x.pos = w.pos => x = w
    /\ AllDone => {w.pos : w \in stores} = 0 .. (N - 1)

\* a launch over a full and a partial block has finished: both policies ran
C1_Witness ==
  /\ mode = "modern"
  /\ AllDone
  /\ arity = 2
  /\ N > block_work_size /\ N % block_work_size # 0
  /\ \E th \in DOMAIN threads : threads[th].policy = "vectorized"
  /\ \E th \in DOMAIN threads : threads[th].policy = "checked_unroll"
  /\ Cardinality(stores) = N

\* C2: a block b of the modern kernel that has chosen its policy computed
\* remaining = N - block_work_size * b and runs the checked policy exactly
\* when remaining < block_work_size; a vectorized block lies wholly inside
\* [0, N), and only the last block of the grid can be a checked one.
C2_PolicyChoice ==
  mode = "modern" =>
    \A th \in DOMAIN threads :
      threads[th].pc # "ready" =>
        LET b == th[1]
            t == threads[th]
        IN  /\ t.remaining = N - block_work_size * b
            /\ t.policy \in {"checked_unroll", "vectorized"}
            /\ t.policy = "checked_unroll" <=>
                 N - block_work_size * b < block_work_size
            /\ t.policy = "vectorized" =>
                 b * block_work_size >= 0 /\ (b + 1) * block_work_size <= N
            /\ t.policy = "checked_unroll" =>
                 /\ b = Kernel.grid - 1
                 /\ IsCeil(b + 1, N, block_work_size)

\* two blocks: block 0 ran vectorized, block 1 checked with the remainder
C2_Witness ==
  /\ mode = "modern"
  /\ Launched
  /\ Kernel.grid = 2
  /\ N = 2 * block_work_size - 1
  /\ \E t \in 0 .. (num_threads - 1) :
       /\ threads[<<0, t>>].policy = "vectorized"
       /\ threads[<<1, t>>].policy = "checked_unroll"
       /\ threads[<<1, t>>].remaining = block_work_size - 1

\* pointer i is aligned to a vector of w elements of its type
Aligned(i, w) == data[i] % (w * (IF i = 0 THEN ret_size ELSE arg_size)) = 0
AllAligned(w) == \A i \in 0 .. arity : Aligned(i, w)

\* C3: the selector returns the largest w in {1, 2, 4} to which every
\* pointer (output with the return type, inputs with the argument type) is
\* aligned; 1 as soon as one pointer is aligned to one element only; and
\* for a nullary function the width of the output pointer alone.
C3_SelectorIsLargestCommonWidth ==
  (mode = "selector" /\ Called) =>
    /\ vec_size \in {1, 2, 4}
    /\ AllAligned(vec_size)
    /\ \A w \in {1, 2, 4} : AllAligned(w) => w <= vec_size
    /\ (\E i \in 0 .. arity : ~Aligned(i, 2)) => vec_size = 1
    /\ arity = 0 =>
         /\ Aligned(0, vec_size)
         /\ \A w \in {1, 2, 4} : Aligned(0, w) => w <= vec_size

\* the output allows width 4, one input only width 2, the answer is 2
C3_Witness ==
  /\ mode = "selector"
  /\ Called
  /\ arity = 2
  /\ Aligned(0, 4) /\ Aligned(1, 4)
  /\ Aligned(2, 2) /\ ~Aligned(2, 4)
  /\ vec_size = 2

\* C4: for 1 <= N <= INT_MAX both launch functions issue exactly one
\* kernel, with block size nt and grid size ceil(N / (nt * vt)): at least
\* one block, and no block that starts at or beyond N.
C4_GridIsCeil ==
  (Called /\ mode \in {"legacy", "modern"} /\ N >= 1 /\ N <= IntMax) =>
    /\ Len(kernels) = 1
    /\ Kernel.ns = mode
    /\ Kernel.block = BlockOf(mode)
    /\ IsCeil(Kernel.grid, N, WorkOf(mode))
    /\ Kernel.grid >= 1
    /\ \A b \in 0 .. (Kernel.grid - 1) : b * WorkOf(mode) < N
    /\ Launched => DOMAIN threads =
         (0 .. Kernel.grid - 1) \X (0 .. BlockOf(mode) - 1)

\* a launch with a partial last block, the grid rounds up
C4_Witness ==
  /\ Called
  /\ mode = "legacy"
  /\ N = 2 * nt * vt - 1
  /\ Len(kernels) = 1
  /\ Kernel.grid = 2

\* C5: for N < 0 or N > INT_MAX both launch functions end in the fatal
\* assertion, first of all: no grid, no stream, no width query, no kernel,
\* no error query, no memory access.
C5_OutOfRangeAsserts ==
  (Called /\ mode \in {"legacy", "modern"} /\ (N < 0 \/ N > IntMax)) =>
    /\ pc = "assert_failed"
    /\ hostlog = <<"assert">>
    /\ kernels = <<>>
    /\ vec_size = 0
    /\ threads = <<>>
    /\ loads = {} /\ stores = {} /\ calls = {} /\ fcalls = {}

\* modern::launch_kernel was called with INT_MAX + 1 and asserted
C5_Witness ==
  /\ mode = "modern"
  /\ N = IntMax + 1
  /\ pc = "assert_failed"

\* C6: for N = 0 both launch functions return normally and do nothing:
\* no kernel, no width query, no last-error query, no memory access.
C6_EmptyIsNoOp ==
  (Called /\ mode \in {"legacy", "modern"} /\ N = 0) =>
    /\ pc = "returned"
    /\ hostlog = <<"return">>
    /\ kernels = <<>>
    /\ vec_size = 0
    /\ last_error = "cudaSuccess"
    /\ threads = <<>>
    /\ loads = {} /\ stores = {} /\ calls = {} /\ fcalls = {}

\* legacy::launch_kernel was called with N = 0 and returned
C6_Witness ==
  /\ mode = "legacy"
  /\ N = 0
  /\ pc = "returned"

\* C7: in modern::launch_kernel with 1 <= N <= INT_MAX, a width w in
\* {1, 2, 4} issues exactly one kernel and it is the vec_size == w
\* specialization (its vectorized blocks access vectors of w elements);
\* any other width ends in the fatal assertion with no kernel issued.
C7_DispatchMatchesWidth ==
  (Called /\ mode = "modern" /\ N >= 1 /\ N <= IntMax) =>
    /\ vec_size \in {1, 2, 4} =>
         /\ Len(kernels) = 1
         /\ Kernel.ns = "modern"
         /\ Kernel.vec_size = vec_size
         /\ pc \in {"returned", "cuda_error"}
    /\ vec_size \notin {1, 2, 4} =>
         /\ pc = "assert_failed"
         /\ hostlog[Len(hostlog)] = "assert"
         /\ IndexOf(hostlog, "enqueue") = 0
         /\ kernels = <<>>
         /\ threads = <<>>
         /\ stores = {}

\* width 2 launched the 2-wide kernel, which ran a vectorized block
C7_Witness ==
  /\ mode = "modern"
  /\ Called
  /\ vec_size = 2
  /\ Len(kernels) = 1
  /\ Kernel.vec_size = 2
  /\ \E th \in DOMAIN threads :
       threads[th].pc = "done" /\ threads[th].policy = "vectorized"

\* C8: whenever a kernel is issued, the host queries the device last-error
\* after the enqueue and before it returns; a failed launch is thrown, the
\* launch function returns normally only after a successful launch, and
\* the query leaves no error behind.
C8_ErrorSurfaced ==
  kernels # <<>> =>
    LET e == IndexOf(hostlog, "enqueue")
        q == IndexOf(hostlog, "cudaGetLastError")
    IN  /\ Called
        /\ e > 0
        /\ q = e + 1
        /\ Len(hostlog) = q + 1
        /\ ~Kernel.ok => pc = "cuda_error" /\ hostlog[q + 1] = "throw"
        /\ Kernel.ok => pc = "returned" /\ hostlog[q + 1] = "return"
        /\ last_error = "cudaSuccess"

\* a launch the device rejected was raised to the caller
C8_Witness ==
  /\ kernels # <<>>
  /\ ~Kernel.ok
  /\ pc = "cuda_error"
  /\ threads = <<>>

\* C9: in the legacy launch, for every instantiation <nt, vt> and every
\* N in 1 .. INT_MAX, f is never invoked with an index outside [0, N), no
\* index is passed to f twice, and once all threads have finished every
\* index of [0, N) was passed to f, also for N next to INT_MAX where
\* idx + nt leaves the range of int.
C9_LegacyEachIndexOnce ==
  mode = "legacy" =>
    /\ \A c \in fcalls :
         /\ MayBe(c.idx) \subseteq 0 .. (N - 1)
         /\ \A d \in fcalls : d.idx = c.idx => d = c
    /\ AllDone => {c.idx : c \in fcalls} = 0 .. (N - 1)

\* C10: in the modern kernel f is invoked only for positions of [0, N),
\* once for each, so that a finished launch has made exactly N invocations
\* (the slots beyond remaining are skipped by the compute step too).
C10_InvocationsAreN ==
  (mode = "modern" /\ AllDone) =>
    /\ \A c \in calls :
         /\ c.pos >= 0 /\ c.pos < N
         /\ \A i \in 1 .. arity : MayHold(c.args[i]) = {In(i, c.pos)}
    /\ Cardinality(calls) = N

=============================================================================
